---------------------------- MODULE Spec2Model ----------------------------
(***************************************************************************)
(* Model of the task manager: the TaskManager store (task_manager.py), its *)
(* JSON persistence, the command-line front end (task_manager.main) and    *)
(* the WSGI front end (web_app.TaskManagerWebApp).                         *)
(*                                                                         *)
(* Python values are modelled as follows.                                  *)
(*   str            a sequence of one-character strings (<<>> is "")       *)
(*   Optional[str]  <<>> for None, <<v>> for a value v                     *)
(*   timestamp      the reading of the clock, an integer (isoformat text   *)
(*                  of datetime.now is determined by that reading)         *)
(*   list index     Python's 0-based index; sequences here are 1-based     *)
(***************************************************************************)
EXTENDS Integers, Sequences, FiniteSets

\* ------------------------------------------------------------------ bounds
MaxTasks == 2
MaxClock == 2

VARIABLES
    tasks,      \* TaskManager.tasks of the long-lived store object
    file,       \* the content of storage_path
    now,        \* the clock read by datetime.now(UTC)
    result,     \* the last call made on the store and its outcome
    response,   \* the last HTTP request and its response
    output      \* the last command-line invocation and what it printed

vars == <<tasks, file, now, result, response, output>>

\* ------------------------------------------------------------ Python values
None == <<>>

Some(v) == <<v>>

EmptyStr == <<>>

\* ------------------------------------------------------------------- Task
\* Task(title=..., description=...): the dataclass defaults, created_at read
\* from the clock.
Task(title, description, t) ==
    [title |-> title, description |-> description, completed |-> FALSE,
     created_at |-> t, completed_at |-> None]

\* fault: Task.complete without its guard, stamping the task again
TaskCompleteAlways(task, t) ==
    [task EXCEPT !.completed = TRUE, !.completed_at = Some(t)]

\* fault: Task.complete that sets completed and forgets completed_at
TaskCompleteNoStamp(task, t) ==
    IF ~task.completed THEN [task EXCEPT !.completed = TRUE] ELSE task

\* Task.complete
TaskComplete(task, t) ==
    IF ~task.completed
    THEN [task EXCEPT !.completed = TRUE, !.completed_at = Some(t)]
    ELSE task

\* -------------------------------------------------------------- persistence
JStr(v) == [t |-> "string", v |-> v]

JBool(b) == [t |-> "bool", b |-> b]

JNull == [t |-> "null"]

\* json.dump of task.__dict__: one JSON object per task
ToJson(task) ==
    [title |-> JStr(task.title), description |-> JStr(task.description),
     completed |-> JBool(task.completed), created_at |-> JStr(task.created_at),
     completed_at |-> IF task.completed_at = None THEN JNull
                      ELSE JStr(task.completed_at[1])]

\* Task(**obj) on an object read by json.load
FromJson(obj) ==
    [title |-> obj.title.v, description |-> obj.description.v,
     completed |-> obj.completed.b, created_at |-> obj.created_at.v,
     completed_at |-> IF obj.completed_at.t = "null" THEN None
                      ELSE Some(obj.completed_at.v)]

NoFile == [exists |-> FALSE, content |-> <<>>]

\* what TaskManager.save leaves in the file
Dump(ts) == [exists |-> TRUE, content |-> [j \in 1..Len(ts) |-> ToJson(ts[j])]]

\* TaskManager.load: the tasks read from the file, [] when it does not exist
Load(f) ==
    IF f.exists THEN [j \in 1..Len(f.content) |-> FromJson(f.content[j])]
    ELSE <<>>

\* ------------------------------------------------------------ list indexing
\* fault: a non-negative index addresses the position after it
PyIndexOffByOne(n, index) ==
    IF index >= 0 /\ index < n THEN (IF index + 2 <= n THEN index + 2 ELSE 1)
    ELSE IF index < 0 /\ index >= -n THEN n + index + 1
    ELSE 0

\* The 1-based position that Python's list[index] / list.pop(index) addresses
\* in a list of length n; 0 when Python raises IndexError.
PyIndex(n, index) ==
    IF index >= 0 /\ index < n THEN index + 1
    ELSE IF index < 0 /\ index >= -n THEN n + index + 1
    ELSE 0

RemoveAt(s, p) == [j \in 1..(Len(s) - 1) |-> IF j < p THEN s[j] ELSE s[j + 1]]

RECURSIVE Active(_)
\* [task for task in ts if not task.completed]
Active(ts) ==
    IF ts = <<>> THEN <<>>
    ELSE IF ~Head(ts).completed THEN <<Head(ts)>> \o Active(Tail(ts))
    ELSE Active(Tail(ts))

\* -------------------------------------------------------- store operations
\* Each operation maps the store's task list to its outcome:
\*   tasks   the list afterwards
\*   saved   whether save() ran
\*   raised  the exception that left the call ("" when it returned)
\*   ret     the returned tasks (a one-element sequence for a single Task)
Outcome(ts, saved, raised, ret) ==
    [tasks |-> ts, saved |-> saved, raised |-> raised, ret |-> ret]

\* fault: add_task that inserts the new task at the front
add_task_prepend(ts, title, description, t) ==
    LET task == Task(title, description, t)
    IN  Outcome(<<task>> \o ts, TRUE, "", <<task>>)

\* TaskManager.add_task
add_task(ts, title, description, t) ==
    LET task == Task(title, description, t)
    IN  Outcome(Append(ts, task), TRUE, "", <<task>>)

\* TaskManager.list_tasks
list_tasks(ts, show_completed) ==
    IF show_completed THEN Outcome(ts, FALSE, "", ts)
    ELSE Outcome(ts, FALSE, "", Active(ts))

\* TaskManager.complete_task
complete_task(ts, index, t) ==
    LET p == PyIndex(Len(ts), index)
    IN  IF p = 0 THEN Outcome(ts, FALSE, "ValueError", <<>>)
        ELSE LET done == [ts EXCEPT ![p] = TaskComplete(ts[p], t)]
             IN  Outcome(done, TRUE, "", <<done[p]>>)

\* fault: delete_task that does not save
delete_task_no_save(ts, index) ==
    LET p == PyIndex(Len(ts), index)
    IN  IF p = 0 THEN Outcome(ts, FALSE, "ValueError", <<>>)
        ELSE Outcome(RemoveAt(ts, p), FALSE, "", <<ts[p]>>)

\* TaskManager.delete_task
delete_task(ts, index) ==
    LET p == PyIndex(Len(ts), index)
    IN  IF p = 0 THEN Outcome(ts, FALSE, "ValueError", <<>>)
        ELSE Outcome(RemoveAt(ts, p), TRUE, "", <<ts[p]>>)

\* fault: clear_completed that removes the first completed task only
clear_completed_first_only(ts) ==
    LET done == {j \in 1..Len(ts) : ts[j].completed}
    IN  IF done = {} THEN Outcome(ts, TRUE, "", <<>>)
        ELSE Outcome(RemoveAt(ts, CHOOSE j \in done : \A k \in done : j <= k),
                     TRUE, "", <<>>)

\* TaskManager.clear_completed
clear_completed(ts) == Outcome(Active(ts), TRUE, "", <<>>)

\* The file after an operation: rewritten by save(), else left as it was.
Saved(f, out) == IF out.saved THEN Dump(out.tasks) ELSE f

\* ------------------------------------------------------------------ inputs
\* the (title, description) arguments given to add_task
NewTasks == {<<<<"a">>, EmptyStr>>, <<<<"b">>, <<"d">>>>}

\* the index arguments tried on a store of n tasks: every position, every
\* negative index down to -n, and one index beyond either end
Indices(n) == (0 - n - 1)..n

\* --------------------------------------------------------------- the store
\* What is known of a call after it ended: the operation and its arguments,
\* the number of tasks when it was made, and how it ended.
Call(op, index, show, title, description, ts, out) ==
    [op |-> op, index |-> index, show |-> show, title |-> title,
     description |-> description, size |-> Len(ts),
     raised |-> out.raised, ret |-> out.ret]

Constructed(ts) ==
    Call("__init__", 0, FALSE, EmptyStr, EmptyStr, ts,
         Outcome(ts, FALSE, "", <<>>))

NoRequest == [method |-> "", path |-> <<>>, body |-> <<>>]

\* no HTTP request was the last thing a front end handled
NoResponse ==
    [request |-> NoRequest, status |-> "", params |-> <<>>, raised |-> ""]

NoArgs ==
    [command |-> "", title |-> EmptyStr, description |-> EmptyStr,
     index |-> 0, all |-> FALSE]

\* no command-line invocation was the last thing a front end handled
NoOutput == [args |-> NoArgs, lines |-> <<>>]

\* TaskManager(storage_path) on a path that holds no file yet
Init ==
    /\ tasks = Load(NoFile)
    /\ file = NoFile
    /\ now = 1
    /\ result = Constructed(<<>>)
    /\ response = NoResponse
    /\ output = NoOutput

\* time passes between two readings of datetime.now(UTC)
Tick ==
    /\ now < MaxClock
    /\ now' = now + 1
    /\ UNCHANGED <<tasks, file, result, response, output>>

\* the process ends and a TaskManager is constructed on the same path
Restart ==
    /\ tasks' = Load(file)
    /\ result' = Constructed(Load(file))
    /\ UNCHANGED <<file, now, response, output>>

AddTask ==
    \E new \in NewTasks :
        /\ Len(tasks) < MaxTasks
        /\ LET out == add_task(tasks, new[1], new[2], now)
           IN  /\ tasks' = out.tasks
               /\ file' = Saved(file, out)
               /\ result' = Call("add_task", 0, FALSE, new[1], new[2], tasks, out)
        /\ UNCHANGED <<now, response, output>>

ListTasks ==
    \E show_completed \in BOOLEAN :
        /\ LET out == list_tasks(tasks, show_completed)
           IN  /\ tasks' = out.tasks
               /\ file' = Saved(file, out)
               /\ result' = Call("list_tasks", 0, show_completed, EmptyStr, EmptyStr,
                              tasks, out)
        /\ UNCHANGED <<now, response, output>>

CompleteTask ==
    \E index \in Indices(Len(tasks)) :
        /\ LET out == complete_task(tasks, index, now)
           IN  /\ tasks' = out.tasks
               /\ file' = Saved(file, out)
               /\ result' = Call("complete_task", index, FALSE, EmptyStr, EmptyStr,
                              tasks, out)
        /\ UNCHANGED <<now, response, output>>

DeleteTask ==
    \E index \in Indices(Len(tasks)) :
        /\ LET out == delete_task(tasks, index)
           IN  /\ tasks' = out.tasks
               /\ file' = Saved(file, out)
               /\ result' = Call("delete_task", index, FALSE, EmptyStr, EmptyStr,
                              tasks, out)
        /\ UNCHANGED <<now, response, output>>

ClearCompleted ==
    /\ LET out == clear_completed(tasks)
       IN  /\ tasks' = out.tasks
           /\ file' = Saved(file, out)
           /\ result' = Call("clear_completed", 0, FALSE, EmptyStr, EmptyStr,
                          tasks, out)
    /\ UNCHANGED <<now, response, output>>

Next ==
    \/ Tick
    \/ Restart
    \/ AddTask
    \/ ListTasks
    \/ CompleteTask
    \/ DeleteTask
    \/ ClearCompleted

Spec == Init /\ [][Next]_vars

\* ============================================================== front ends
\* Each command-line invocation and each HTTP request constructs its own
\* TaskManager on the storage path; that object does not outlive it, so the
\* front ends act on the file alone.

\* ------------------------------------------------------------------ strings
Whitespace == {" "}

RECURSIVE LStrip(_)
LStrip(s) ==
    IF s # <<>> /\ Head(s) \in Whitespace THEN LStrip(Tail(s)) ELSE s

RECURSIVE RStrip(_)
RStrip(s) ==
    IF s # <<>> /\ s[Len(s)] \in Whitespace
    THEN RStrip(SubSeq(s, 1, Len(s) - 1))
    ELSE s

\* fault: the form value is used as it was sent
StripNothing(s) == s

\* str.strip()
Strip(s) == RStrip(LStrip(s))

\* int(index_part) on the path segments that the requests carry: <<n>> for
\* the integer read, <<>> when int() raises ValueError
ParseInt(text) ==
    CASE text = "0" -> <<0>>
      [] text = "1" -> <<1>>
      [] text = "2" -> <<2>>
      [] text = "-1" -> <<0 - 1>>
      [] text = "-2" -> <<0 - 2>>
      [] OTHER -> <<>>

\* ---------------------------------------------------------------- requests
\* A path is the sequence path.split("/") gives: "/tasks" is <<"", "tasks">>,
\* "/" is <<"", "">> and the empty path is <<"">>.
RootPath == <<"", "">>

\* A request body is the sequence of (key, value) fields of the form.
IsBlank(field) == field[2] = EmptyStr

IsTitle(field) == field[1] = "title" /\ ~IsBlank(field)

IsDescription(field) == field[1] = "description" /\ ~IsBlank(field)

\* _read_post_data: parse_qs drops the fields with a blank value, and the
\* first value of each remaining key is kept.
read_post_data(body) ==
    LET titles == SelectSeq(body, IsTitle)
        descriptions == SelectSeq(body, IsDescription)
        keys == (IF titles # <<>> THEN {"title"} ELSE {})
                    \cup (IF descriptions # <<>> THEN {"description"} ELSE {})
    IN  [k \in keys |-> IF k = "title" THEN titles[1][2] ELSE descriptions[1][2]]

\* dict.get(key, "")
Get(data, key) == IF key \in DOMAIN data THEN data[key] ELSE EmptyStr

\* What a handler leaves: the response (status line, the query parameters of
\* the Location header, the exception that left the application if any) and
\* the file.
Reply(status, params, raised, f) ==
    [status |-> status, params |-> params, raised |-> raised, file |-> f]

\* TaskManagerWebApp._redirect
redirect(message, error, f) ==
    LET value(k) == IF k = "message" THEN message ELSE error
        params == [k \in {k \in {"message", "error"} : value(k) # ""} |-> value(k)]
    IN  Reply("303 See Other", params, "", f)

\* TaskManagerWebApp._handle_index
handle_index(f) == Reply("200 OK", <<>>, "", f)

\* TaskManagerWebApp._handle_static
handle_static(f) == Reply("200 OK", <<>>, "", f)

\* TaskManagerWebApp._handle_add
handle_add(body, f, t) ==
    LET data == read_post_data(body)
        title == Strip(Get(data, "title"))
        description == Strip(Get(data, "description"))
    IN  IF title = EmptyStr
        THEN redirect("", "Task title is required.", f)
        ELSE LET out == add_task(Load(f), title, description, t)
             IN  redirect("Task added successfully.", "", Saved(f, out))

\* TaskManagerWebApp._extract_index: <<n>> for the index read from the path,
\* <<>> when it raises ValueError.  path.split("/", 3) gives four parts when
\* the path has three slashes or more, and the third part is the index.
extract_index(path) ==
    IF Len(path) >= 4 THEN ParseInt(path[3]) ELSE <<>>

\* TaskManagerWebApp._handle_complete; the ValueError of _extract_index is
\* raised outside the try block and leaves the application.
handle_complete(path, f, t) ==
    LET index == extract_index(path)
    IN  IF index = <<>> THEN Reply("", <<>>, "ValueError", f)
        ELSE LET out == complete_task(Load(f), index[1], t)
             IN  IF out.raised = "ValueError"
                 THEN redirect("", "Unable to complete the selected task.", f)
                 ELSE redirect("Task marked as complete.", "", Saved(f, out))

\* TaskManagerWebApp._handle_delete
handle_delete(path, f) ==
    LET index == extract_index(path)
    IN  IF index = <<>> THEN Reply("", <<>>, "ValueError", f)
        ELSE LET out == delete_task(Load(f), index[1])
             IN  IF out.raised = "ValueError"
                 THEN redirect("", "Unable to delete the selected task.", f)
                 ELSE redirect("Task deleted.", "", Saved(f, out))

\* TaskManagerWebApp._handle_clear
handle_clear(f) ==
    redirect("Completed tasks cleared.", "", Saved(f, clear_completed(Load(f))))

\* str.upper() on the request method
Upper(method) ==
    CASE method = "get" -> "GET"
      [] method = "post" -> "POST"
      [] OTHER -> method

\* path.endswith("/" + name)
EndsWith(path, name) == Len(path) >= 2 /\ path[Len(path)] = name

\* TaskManagerWebApp.__call__
app(request, f, t) ==
    LET method == Upper(request.method)
        path == IF request.path = <<"">> THEN RootPath ELSE request.path
    IN  IF method = "GET" /\ path = RootPath THEN handle_index(f)
        ELSE IF method = "GET" /\ path = <<"", "static", "styles.css">>
        THEN handle_static(f)
        ELSE IF method = "POST" /\ path = <<"", "tasks">>
        THEN handle_add(request.body, f, t)
        ELSE IF method = "POST" /\ EndsWith(path, "complete")
        THEN handle_complete(path, f, t)
        ELSE IF method = "POST" /\ EndsWith(path, "delete")
        THEN handle_delete(path, f)
        ELSE IF method = "POST" /\ path = <<"", "tasks", "clear-completed">>
        THEN handle_clear(f)
        ELSE Reply("404 Not Found", <<>>, "", f)

\* ------------------------------------------------------------ command line
\* One printed line: the text around the values, and the values printed.
Line(text, index, completed, title, description) ==
    [text |-> text, index |-> index, completed |-> completed,
     title |-> title, description |-> description]

Message(text) == Line(text, 0, FALSE, EmptyStr, EmptyStr)

AboutTask(text, task) == Line(text, 0, FALSE, task.title, EmptyStr)

\* the lines printed by the loop over enumerate(tasks) of the list command
Listing(ts) ==
    [k \in 1..Len(ts) |->
        Line("{index}: [{status}] {title}{description}", k - 1,
             ts[k].completed, ts[k].title, ts[k].description)]

\* What main leaves: the lines printed and the file.
Printed(lines, f) == [lines |-> lines, file |-> f]

\* main: TaskManager() loads the file, then the command is carried out
main(args, f, t) ==
    LET manager == Load(f)
    IN  IF args.command = "add"
        THEN LET out == add_task(manager, args.title, args.description, t)
             IN  Printed(<<AboutTask("Added task: {title}", out.ret[1])>>,
                         Saved(f, out))
        ELSE IF args.command = "list"
        THEN LET out == list_tasks(manager, args.all)
             IN  Printed((IF out.ret = <<>> THEN <<Message("No tasks found.")>>
                          ELSE <<>>) \o Listing(out.ret), Saved(f, out))
        ELSE IF args.command = "complete"
        THEN LET out == complete_task(manager, args.index, t)
             IN  IF out.raised = "ValueError"
                 THEN Printed(<<Message("Invalid task index")>>, Saved(f, out))
                 ELSE Printed(<<AboutTask("Completed task: {title}", out.ret[1])>>,
                              Saved(f, out))
        ELSE IF args.command = "delete"
        THEN LET out == delete_task(manager, args.index)
             IN  IF out.raised = "ValueError"
                 THEN Printed(<<Message("Invalid task index")>>, Saved(f, out))
                 ELSE Printed(<<AboutTask("Deleted task: {title}", out.ret[1])>>,
                              Saved(f, out))
        ELSE IF args.command = "clear"
        THEN Printed(<<Message("Cleared completed tasks.")>>,
                     Saved(f, clear_completed(manager)))
        ELSE Printed(<<Message("No command provided. Use -h for help.")>>, f)

\* ------------------------------------------------------------------ inputs
PostPaths ==
    {<<"", "tasks", "clear-completed">>, <<"", "other">>,
     <<"", "tasks", "0", "complete">>, <<"", "tasks", "1", "complete">>,
     <<"", "tasks", "-1", "complete">>, <<"", "tasks", "abc", "complete">>,
     <<"", "x", "0", "complete">>, <<"", "complete">>,
     <<"", "tasks", "0", "x", "complete">>,
     <<"", "tasks", "0", "delete">>, <<"", "tasks", "2", "delete">>,
     <<"", "tasks", "abc", "delete">>, <<"", "x", "1", "delete">>,
     <<"", "delete">>}

OtherPaths ==
    {<<"">>, RootPath, <<"", "static", "styles.css">>, <<"", "tasks">>,
     <<"", "other">>, <<"", "tasks", "0", "complete">>}

Bodies ==
    {<<>>,
     <<<<"title", EmptyStr>>>>,
     <<<<"title", <<" ">>>>>>,
     <<<<"title", <<" ", " ">>>>, <<"description", <<"d">>>>>>,
     <<<<"title", <<" ", "a", " ">>>>>>,
     <<<<"title", <<"b">>>>, <<"description", <<" ", "d">>>>>>,
     <<<<"description", <<"d">>>>>>,
     <<<<"title", EmptyStr>>, <<"title", <<"a">>>>>>}

\* a form is posted to /tasks; the other requests carry no body
Requests ==
    [method : {"POST"}, path : {<<"", "tasks">>}, body : Bodies]
        \cup [method : {"POST"}, path : PostPaths, body : {<<>>}]
        \cup [method : {"GET", "PUT"}, path : OtherPaths, body : {<<>>}]
        \cup [method : {"post", "get"}, body : {<<>>},
              path : {RootPath, <<"", "tasks", "clear-completed">>}]

\* the command lines tried on a store of n tasks
CommandLines(n) ==
    [command : {"add"}, title : {EmptyStr, <<"a">>},
     description : {EmptyStr}, index : {0}, all : {FALSE}]
        \cup [command : {"list"}, title : {EmptyStr}, description : {EmptyStr},
              index : {0}, all : BOOLEAN]
        \cup [command : {"complete", "delete"}, title : {EmptyStr},
              description : {EmptyStr}, index : Indices(n), all : {FALSE}]
        \cup [command : {"clear", ""}, title : {EmptyStr},
              description : {EmptyStr}, index : {0}, all : {FALSE}]

\* ----------------------------------------------------------------- actions
\* the WSGI server hands a request to the application
HttpRequest ==
    \E request \in Requests :
        LET reply == app(request, file, now)
        IN  /\ Len(Load(reply.file)) <= MaxTasks
            /\ file' = reply.file
            /\ response' = [request |-> request, status |-> reply.status,
                            params |-> reply.params, raised |-> reply.raised]
            /\ output' = NoOutput
            /\ UNCHANGED <<tasks, now, result>>

\* the program is run from the command line
CommandLine ==
    \E args \in CommandLines(Len(Load(file))) :
        LET printed == main(args, file, now)
        IN  /\ Len(Load(printed.file)) <= MaxTasks
            /\ file' = printed.file
            /\ output' = [args |-> args, lines |-> printed.lines]
            /\ response' = NoResponse
            /\ UNCHANGED <<tasks, now, result>>

\* The front ends are followed within one reading of the clock: what they
\* answer and which tasks they store does not depend on the timestamps.
NextFront ==
    \/ HttpRequest
    \/ CommandLine

SpecFront == Init /\ [][NextFront]_vars

\* ================================================================== claims
NotCompleted(task) == ~task.completed

\* The step is a call of operation op on the store: every step but the
\* passing of time leaves the clock alone and records the call it made.
Called(op) == now' = now /\ result'.op = op

\* the positions (0-based) of a store of n tasks
Positions(n) == 0..(n - 1)

\* the position of the k-th task of ts that is not completed
NthActive(ts, k) ==
    CHOOSE j \in DOMAIN ts :
        /\ ~ts[j].completed
        /\ Cardinality({i \in 1..j : ~ts[i].completed}) = k

\* The task object at position k (1-based) after a step is the one that was
\* at position Origin(k) before it; 0 for a task the step created.  A delete
\* takes one object out of the list, clear_completed the completed ones, and
\* every other operation leaves the objects where they are.
Origin(k) ==
    IF Called("delete_task") /\ result'.raised = ""
    THEN LET p == IF result'.index >= 0 THEN result'.index + 1
                  ELSE Len(tasks) + result'.index + 1
         IN  IF k < p THEN k ELSE k + 1
    ELSE IF Called("clear_completed") THEN NthActive(tasks, k)
    ELSE IF k <= Len(tasks) THEN k
    ELSE 0

\* C1: complete_task(i) and delete_task(i) with i < 0 or i >= number of tasks
\* fail with ValueError and leave the task sequence and the file unchanged.
C1_OutOfRangeRejected ==
    [][((Called("complete_task") \/ Called("delete_task"))
            /\ (result'.index < 0 \/ result'.index >= Len(tasks)))
        => (result'.raised = "ValueError" /\ tasks' = tasks /\ file' = file)]_vars

\* C2: after any sequence of store calls, failing ones included, the file
\* holds exactly the in-memory task sequence, so that a store constructed on
\* the same path lists the same tasks with the same field values.
C2_FileHoldsMemory ==
    /\ Load(file) = tasks
    /\ file.exists => Len(file.content) = Len(tasks)
    /\ ~file.exists => tasks = <<>>

\* a call failed on a store that holds a completed task: tasks were added
\* and completed, and the last call raised without saving
C2_Witness ==
    /\ result.raised = "ValueError"
    /\ \E j \in DOMAIN tasks : tasks[j].completed

\* C3: complete_task(i) with a valid index sets completed and a non-null
\* completed_at on that task alone and returns it; once a task is completed,
\* no later step (a further complete_task included) changes its completed_at.
C3_CompleteOnce ==
    [][/\ \A i \in Positions(Len(tasks)) :
            (Called("complete_task") /\ result'.index = i) =>
                /\ result'.raised = ""
                /\ Len(tasks') = Len(tasks)
                /\ tasks'[i + 1].completed
                /\ tasks'[i + 1].completed_at # None
                /\ tasks'[i + 1].title = tasks[i + 1].title
                /\ tasks'[i + 1].description = tasks[i + 1].description
                /\ tasks'[i + 1].created_at = tasks[i + 1].created_at
                /\ result'.ret = <<tasks'[i + 1]>>
                /\ \A j \in DOMAIN tasks : j # i + 1 => tasks'[j] = tasks[j]
       /\ \A k \in DOMAIN tasks' :
            (Origin(k) # 0 /\ tasks[Origin(k)].completed) =>
                tasks'[k].completed_at = tasks[Origin(k)].completed_at]_vars

\* complete_task returned a task whose completed_at is older than the
\* creation of a task in the store: it had been completed before this call
C3_Witness ==
    /\ result.op = "complete_task"
    /\ result.raised = ""
    /\ result.index >= 0
    /\ result.ret[1].completed
    /\ \E j \in DOMAIN tasks :
           tasks[j].created_at > result.ret[1].completed_at[1]

\* C4: delete_task(i) with a valid index on n tasks returns the task at
\* position i and leaves n-1 tasks: positions below i as before, every
\* position j >= i holding the task that was at j+1, fields unchanged.
C4_DeleteShifts ==
    [][\A i \in Positions(Len(tasks)) :
            (Called("delete_task") /\ result'.index = i) =>
                /\ result'.raised = ""
                /\ result'.ret = <<tasks[i + 1]>>
                /\ Len(tasks') = Len(tasks) - 1
                /\ \A j \in 1..i : tasks'[j] = tasks[j]
                /\ \A j \in (i + 1)..(Len(tasks) - 1) : tasks'[j] = tasks[j + 1]]_vars

\* a delete at position 0 of a store of two or more tasks, the remaining
\* tasks not all alike
C4_Witness ==
    /\ result.op = "delete_task"
    /\ result.raised = ""
    /\ result.index = 0
    /\ result.size >= 2
    /\ tasks # <<>>
    /\ tasks[1] # result.ret[1]

\* C5: clear_completed leaves exactly the tasks that were not completed, in
\* their order and unchanged; with no completed task the store is unchanged.
C5_ClearCompleted ==
    [][Called("clear_completed") =>
            /\ tasks' = SelectSeq(tasks, NotCompleted)
            /\ \A j \in DOMAIN tasks' : ~tasks'[j].completed
            /\ (\A j \in DOMAIN tasks : ~tasks[j].completed) => tasks' = tasks]_vars

\* clear_completed removed a task and kept another
C5_Witness ==
    /\ result.op = "clear_completed"
    /\ result.size > Len(tasks)
    /\ tasks # <<>>

\* C6: add_task appends one task with the given title and description,
\* completed false and completed_at null, returns it and leaves the earlier
\* tasks in place; list_tasks(True) returns the whole sequence, list_tasks(False)
\* the subsequence of tasks not completed, neither changing the store.
C6_AddAndList ==
    [][/\ Called("add_task") =>
            /\ Len(tasks') = Len(tasks) + 1
            /\ \A j \in DOMAIN tasks : tasks'[j] = tasks[j]
            /\ tasks'[Len(tasks')].title = result'.title
            /\ tasks'[Len(tasks')].description = result'.description
            /\ ~tasks'[Len(tasks')].completed
            /\ tasks'[Len(tasks')].completed_at = None
            /\ result'.ret = <<tasks'[Len(tasks')]>>
       /\ Called("list_tasks") =>
            /\ tasks' = tasks
            /\ file' = file
            /\ result'.show => result'.ret = tasks
            /\ ~result'.show => result'.ret = SelectSeq(tasks, NotCompleted)]_vars

\* the tasks not completed were listed in a store that holds a completed task
\* followed by a task added after it
C6_Witness ==
    /\ result.op = "list_tasks"
    /\ ~result.show
    /\ Len(tasks) = 2
    /\ tasks[1].completed
    /\ result.ret = <<tasks[2]>>

\* C7: in every reachable state completed_at is non-null exactly when
\* completed is true, and no step changes a task's created_at or turns
\* completed from true to false.
C7_TaskInvariant ==
    /\ [](\A j \in DOMAIN tasks :
            (tasks[j].completed_at # None) <=> tasks[j].completed)
    /\ [][\A k \in DOMAIN tasks' :
            Origin(k) # 0 =>
                /\ tasks'[k].created_at = tasks[Origin(k)].created_at
                /\ tasks[Origin(k)].completed => tasks'[k].completed]_vars

\* a completed task and a task created later that is not completed
C7_Witness ==
    \E j, k \in DOMAIN tasks :
        /\ tasks[j].completed
        /\ ~tasks[k].completed
        /\ tasks[k].created_at > tasks[j].created_at

\* the step is the handling of an HTTP request
Handled == now' = now /\ response' # NoResponse

\* the step is a run of the command line
Ran == now' = now /\ output' # NoOutput

\* every value of a title field of the form is made of whitespace alone:
\* the title is missing, empty or whitespace-only
BlankTitle(body) ==
    \A j \in DOMAIN body :
        body[j][1] = "title" =>
            \A c \in DOMAIN body[j][2] : body[j][2][c] \in Whitespace

\* C8: POST /tasks with a missing, empty or whitespace-only title answers 303
\* with an error parameter and no message parameter in the Location, and the
\* store holds the same tasks as before.
C8_BlankTitleRejected ==
    [][(/\ Handled
        /\ response'.request.method = "POST"
        /\ response'.request.path = <<"", "tasks">>
        /\ BlankTitle(response'.request.body))
        => /\ response'.status = "303 See Other"
           /\ response'.raised = ""
           /\ "error" \in DOMAIN response'.params
           /\ "message" \notin DOMAIN response'.params
           /\ file' = file
           /\ Load(file') = Load(file)]_vars

\* a form whose title is two spaces was posted to a store that holds a task
C8_Witness ==
    /\ response.request.method = "POST"
    /\ response.request.path = <<"", "tasks">>
    /\ response.request.body # <<>>
    /\ response.request.body[1] = <<"title", <<" ", " ">>>>
    /\ "error" \in DOMAIN response.params
    /\ Load(file) # <<>>

\* the six routes of the HTTP interface
ListedRoute(request) ==
    \/ request.method = "GET" /\ request.path \in {RootPath, <<"">>}
    \/ request.method = "GET" /\ request.path = <<"", "static", "styles.css">>
    \/ request.method = "POST" /\ request.path = <<"", "tasks">>
    \/ /\ request.method = "POST"
       /\ Len(request.path) = 4
       /\ request.path[1] = ""
       /\ request.path[2] = "tasks"
       /\ ParseInt(request.path[3]) # <<>>
       /\ request.path[4] \in {"complete", "delete"}
    \/ request.method = "POST" /\ request.path = <<"", "tasks", "clear-completed">>

\* C9: every request is answered and none fails fatally; a request that is
\* not one of the six routes is answered 404 and leaves the store unchanged.
C9_UnlistedRouteIs404 ==
    [][Handled =>
        /\ response'.raised = ""
        /\ ~ListedRoute(response'.request) =>
              (response'.status = "404 Not Found" /\ file' = file)]_vars

\* C10: in every store state reachable through the command line and HTTP,
\* every task's title is non-empty.
C10_TitlesNonEmpty ==
    \A j \in DOMAIN Load(file) : Load(file)[j].title # EmptyStr

\* the line was printed by the list command for a task
ListedTask(line) == line.text = "{index}: [{status}] {title}{description}"

\* C11: the index the list command prints next to a task, with or without
\* -a, is the 0-based position of that task in the store: the task at the
\* printed position is the one the line shows, so that complete <index> and
\* delete <index> act on it.  (The list command writes nothing, so the file
\* is the store that was listed.)
C11_PrintedIndexIsPosition ==
    output.args.command = "list" =>
        \A k \in DOMAIN output.lines :
            ListedTask(output.lines[k]) =>
                /\ output.lines[k].index + 1 \in DOMAIN Load(file)
                /\ Load(file)[output.lines[k].index + 1].completed
                       = output.lines[k].completed
                /\ Load(file)[output.lines[k].index + 1].title
                       = output.lines[k].title
                /\ Load(file)[output.lines[k].index + 1].description
                       = output.lines[k].description
===========================================================================
